---- MODULE Spec2Model ----
(***************************************************************************)
(* A model of DVCAService (icao/cvca/dvcaservice.js): the terminal         *)
(* certificate policy rules, the policy check, the outbound and inbound    *)
(* request queues with the outbound message-id index, and the web service  *)
(* handlers that read and write them.                                      *)
(*                                                                         *)
(* ServiceRequest objects live in `heap`; an object is named by its        *)
(* position in the heap (1, 2, ...), which is also its creation order.     *)
(* The queues and the index hold object names, as the JavaScript arrays    *)
(* hold references.  Every JavaScript value that a field can hold is a     *)
(* string here: Undefined and Null stand for undefined and null.           *)
(***************************************************************************)
EXTENDS Integers, Sequences, FiniteSets, TLC

VARIABLES
    heap,                          \* the ServiceRequest objects created so far
    outqueue,                      \* this.outqueue: names of ServiceRequests
    outqueuemap,                   \* this.outqueuemap: own properties, msgid -> name
    inqueue,                       \* this.inqueue: names of ServiceRequests
    terminalCertificatePolicies,   \* this.terminalCertificatePolicies
    terminalCertificatePolicy,     \* this.terminalCertificatePolicy (the default)
    installed,                     \* the setTerminalCertificatePolicy calls, in order
    store,                         \* certificates held by this.dvca / this.ss
    response,                      \* the last call: its inputs and what it returned
    issuedFor,                     \* the certificates issued for queued requests, in order
    threads                        \* where each thread is inside a call it has begun

vars == <<heap, outqueue, outqueuemap, inqueue, terminalCertificatePolicies,
          terminalCertificatePolicy, installed, store, response, issuedFor,
          threads>>

policyVars == <<terminalCertificatePolicies, terminalCertificatePolicy, installed>>

-----------------------------------------------------------------------------
(* JavaScript values *)

Undefined == "undefined"
Null == "null"

\* if (v): null, undefined and the empty string are falsy
Truthy(v) == v \notin {Undefined, Null, ""}

Range(s) == {s[i] : i \in DOMAIN s}

-----------------------------------------------------------------------------
(* ServiceRequest: status codes, constructor and setters *)

OK_CERT_AVAILABLE == "ok_cert_available"
OK_SYNTAX == "ok_syntax"
OK_RECEIVED_CORRECTLY == "ok_received_correctly"
FAILURE_SYNTAX == "failure_syntax"
FAILURE_INNER_SIGNATURE == "failure_inner_signature"
FAILURE_OUTER_SIGNATURE == "failure_outer_signature"
FAILURE_SYNCHRONOUS_PROCESSING_NOT_POSSIBLE == "failure_synchronous_processing_not_possible"
FAILURE_MESSAGEID_UNKNOWN == "failure_messageid_unknown"

\* returnCode.substr(0, 3) == "ok_"
IsOk(code) ==
    code \in {OK_CERT_AVAILABLE, OK_SYNTAX, OK_RECEIVED_CORRECTLY}

\* new ServiceRequest(messageID, responseURL, certificateRequest)
NewServiceRequest(messageID, responseURL, certificateRequest) ==
    [messageID          |-> messageID,
     responseURL        |-> responseURL,
     certificateRequest |-> certificateRequest,
     statusInfo         |-> Undefined,
     finalStatusInfo    |-> Undefined]

setStatusInfo(h, sr, statusInfo) == [h EXCEPT ![sr].statusInfo = statusInfo]

setFinalStatusInfo(h, sr, statusInfo) == [h EXCEPT ![sr].finalStatusInfo = statusInfo]

\* sr.isCertificateRequest()
isCertificateRequest(h, sr) == h[sr].certificateRequest # Undefined

-----------------------------------------------------------------------------
(* Message ids: this.crypto.generateRandom(2).toString(HEX) *)

HexDigits == <<"0", "1", "2", "3", "4", "5", "6", "7",
               "8", "9", "A", "B", "C", "D", "E", "F">>

\* two random bytes, as four hexadecimal digits
ToHex(n) ==
    HexDigits[((n \div 4096) % 16) + 1] \o HexDigits[((n \div 256) % 16) + 1]
        \o HexDigits[((n \div 16) % 16) + 1] \o HexDigits[(n % 16) + 1]

\* var msgid = null; if (async) { msgid = generateRandom(2).toString(HEX) }
GenerateMessageID(async, rnd) == IF async THEN ToHex(rnd) ELSE Null

-----------------------------------------------------------------------------
(* this.outqueuemap = []: an Array used as an associative map *)

EmptyMap == [k \in {} |-> 0]

\* Properties every Array inherits from Array.prototype; a lookup of one of
\* these names on an array that has no such own property yields the
\* inherited function, never undefined.
ArrayPrototypeMembers == {"push", "shift"}

NotFound == 0          \* the lookup yields undefined
Inherited == -1        \* the lookup yields an inherited function

\* this.outqueuemap[msgid]
MapGet(m, msgid) ==
    IF msgid \in DOMAIN m THEN m[msgid]
    ELSE IF msgid \in ArrayPrototypeMembers THEN Inherited
    ELSE NotFound

\* this.outqueuemap[msgid] = sr
MapPut(m, msgid, sr) ==
    [k \in DOMAIN m \cup {msgid} |-> IF k = msgid THEN sr ELSE m[k]]

\* delete(this.outqueuemap[msgid])
MapDelete(m, msgid) == [k \in DOMAIN m \ {msgid} |-> m[k]]

-----------------------------------------------------------------------------
(* The outbound queue *)

QueueCapacity == 10

\* A plausible slip: the oldest entry is never removed.
addOutboundRequest_NoEviction(q, m, h, sr) ==
    [queue |-> Append(q, sr),
     map   |-> IF Truthy(h[sr].messageID) THEN MapPut(m, h[sr].messageID, sr) ELSE m]

\* A plausible slip: the oldest entry is removed from the list only.
addOutboundRequest_KeepIndex(q, m, h, sr) ==
    [queue |-> Append(IF Len(q) >= QueueCapacity THEN Tail(q) ELSE q, sr),
     map   |-> IF Truthy(h[sr].messageID) THEN MapPut(m, h[sr].messageID, sr) ELSE m]

\* A plausible slip: the new entry goes to the front of the list.
addOutboundRequest_Front(q, m, h, sr) ==
    [queue |-> <<sr>> \o (IF Len(q) >= QueueCapacity THEN Tail(q) ELSE q),
     map   |-> LET m1 == IF Len(q) >= QueueCapacity /\ Truthy(h[Head(q)].messageID)
                         THEN MapDelete(m, h[Head(q)].messageID) ELSE m
               IN  IF Truthy(h[sr].messageID) THEN MapPut(m1, h[sr].messageID, sr) ELSE m1]

\* addOutboundRequest(sr): the list and the index after the call
addOutboundRequest(q, m, h, sr) ==
    LET full  == Len(q) >= QueueCapacity
        oldsr == Head(q)
        q1    == IF full THEN Tail(q) ELSE q
        m1    == IF full /\ Truthy(h[oldsr].messageID)
                 THEN MapDelete(m, h[oldsr].messageID)
                 ELSE m
    IN  [queue |-> Append(q1, sr),
         map   |-> IF Truthy(h[sr].messageID)
                   THEN MapPut(m1, h[sr].messageID, sr)
                   ELSE m1]

-----------------------------------------------------------------------------
(* Certificates on the wire and in the store *)

\* The certificates of the hierarchy the service may be handed.  FOREIGN does
\* not chain to the trust anchor: the store refuses to import it.
\* UTDVCA00002 is the authority's own next certificate.
Certificates == {"CVCA", "LINK", "FOREIGN", "UTDVCA00002"}

\* cvc.getBytes().toString(BASE64)
Base64(cvc) == "b64:" \o cvc

\* A certificateSeq element that is no encoded certificate.
Garbage == "%%%"

Blobs == {Base64(c) : c \in Certificates} \cup {Garbage}

\* new CVC(new ByteString(c, BASE64)) succeeds
Decodes(blob) == \E c \in Certificates : Base64(c) = blob

\* new CVC(new ByteString(c, BASE64))
DecodeCVC(blob) == CHOOSE c \in Certificates : Base64(c) = blob

\* this.dvca.importCertificates(certlist): the store afterwards
StoreAfterImport(st, certlist) ==
    st \cup {c \in Range(certlist) : c # "FOREIGN"}

\* DVCAService.prototype.importCertificates(certlist)
importCertificates(st, certlist) == StoreAfterImport(st, certlist)

\* The for-each loops that decode a certificateSeq: the certificates decoded
\* before the first element that does not decode (all of them if all decode).
RECURSIVE DecodedPrefix(_)
DecodedPrefix(seq) ==
    IF seq = <<>> \/ ~Decodes(Head(seq)) THEN <<>>
    ELSE <<DecodeCVC(Head(seq))>> \o DecodedPrefix(Tail(seq))

AllDecode(seq) == \A i \in DOMAIN seq : Decodes(seq[i])

-----------------------------------------------------------------------------
(* What a call leaves behind for its caller *)

NoError == "none"
DeviceError == "GPError.DEVICE_ERROR"     \* thrown by the service itself
Uncaught == "Error"                       \* a collaborator's exception, not caught
TypeError == "TypeError"                  \* calling what is not a function

\* op: the operation; key: the message id, holder reference or request it
\* was about; certificateSeq: the certificates handed in; result: the value
\* or return code handed back; certificates: the certificates handed back;
\* calls: the calls to collaborators the operation made, in order.
Returned(op, key, certificateSeq, result, certificates) ==
    [op |-> op, key |-> key, certificateSeq |-> certificateSeq,
     result |-> result, certificates |-> certificates, error |-> NoError,
     calls |-> <<>>]

Threw(op, key, certificateSeq, error) ==
    [op |-> op, key |-> key, certificateSeq |-> certificateSeq,
     result |-> Undefined, certificates |-> <<>>, error |-> error,
     calls |-> <<>>]

\* The same outcome, with the collaborator calls that led to it.
WithCalls(outcome, calls) == [outcome EXCEPT !.calls = calls]

-----------------------------------------------------------------------------
(* Outbound flows *)

MyURL == "http://dvca/SendCertificates"

\* this.dvca.generateRequest(car, forceinitial)
GenerateRequest(forceinitial) ==
    IF forceinitial THEN "OWN_INITIAL_REQUEST" ELSE "OWN_AUTHENTICATED_REQUEST"

\* "" + certlist.length + " certificates received"
Decimal == <<"1", "2", "3", "4", "5", "6", "7", "8", "9">>
CertificatesReceived(n) == Decimal[n] \o " certificates received"

\* The parent's answer to a SOAP call: the call fails in transport, or a
\* Result with a returnCode and a certificateSeq comes back.
ParentReply(transport, returnCode, certificateSeq) ==
    [transport |-> transport, returnCode |-> returnCode,
     certificateSeq |-> certificateSeq]

\* The one call of soapConnection.call(this.parentURL, request) a flow makes.
SoapCalled == <<"soapConnection.call">>

\* getCACertificatesFromCVCA(sr) followed by the import, given the heap with
\* the new request already queued: the SOAP call is not guarded.
updateCACertificates(async, rnd, reply) ==
    LET msgid == GenerateMessageID(async, rnd)
        sr    == Len(heap) + 1
        h1    == Append(heap, NewServiceRequest(msgid, MyURL, Undefined))
        added == addOutboundRequest(outqueue, outqueuemap, h1, sr)
        h2    == setStatusInfo(h1, sr, reply.returnCode)
        seq   == IF reply.returnCode = OK_CERT_AVAILABLE
                 THEN reply.certificateSeq ELSE <<>>
    IN  /\ outqueue' = added.queue
        /\ outqueuemap' = added.map
        /\ IF reply.transport = "failed"
           THEN /\ heap' = h1
                /\ store' = store
                /\ response' = WithCalls(Threw("updateCACertificates", msgid, <<>>, Uncaught),
                                            SoapCalled)
           ELSE IF ~AllDecode(seq)
           THEN /\ heap' = h2
                /\ store' = store
                /\ response' = WithCalls(Threw("updateCACertificates", msgid, <<>>, Uncaught),
                                            SoapCalled)
           ELSE /\ heap' = h2
                /\ store' = StoreAfterImport(store, DecodedPrefix(seq))
                /\ response' = WithCalls(Returned("updateCACertificates", msgid,
                                                     <<>>, Undefined, <<>>),
                                            SoapCalled)
        /\ UNCHANGED <<inqueue, policyVars, issuedFor, threads>>

\* renewCertificate(async, forceinitial): the SOAP call is guarded and its
\* failure rethrown as a device error.
renewCertificate(async, forceinitial, rnd, reply) ==
    LET req   == GenerateRequest(forceinitial)
        msgid == GenerateMessageID(async, rnd)
        sr    == Len(heap) + 1
        h1    == Append(heap, NewServiceRequest(msgid, MyURL, req))
        added == addOutboundRequest(outqueue, outqueuemap, h1, sr)
        h2    == setStatusInfo(h1, sr, reply.returnCode)
        seq   == IF IsOk(reply.returnCode) THEN reply.certificateSeq ELSE <<>>
        certlist == DecodedPrefix(seq)
        h3    == IF Len(certlist) > 0
                 THEN setFinalStatusInfo(h2, sr, CertificatesReceived(Len(certlist)))
                 ELSE h2
    IN  /\ outqueue' = added.queue
        /\ outqueuemap' = added.map
        /\ IF reply.transport = "failed"
           THEN /\ heap' = h1
                /\ store' = store
                /\ response' = WithCalls(Threw("renewCertificate", msgid, <<>>, DeviceError),
                                            SoapCalled)
           ELSE IF ~AllDecode(seq)
           THEN /\ heap' = h2
                /\ store' = store
                /\ response' = WithCalls(Threw("renewCertificate", msgid, <<>>, Uncaught),
                                            SoapCalled)
           ELSE /\ heap' = h3
                /\ store' = StoreAfterImport(store, certlist)
                /\ response' = WithCalls(Returned("renewCertificate", msgid,
                                                     <<>>, Undefined, <<>>),
                                            SoapCalled)
        /\ UNCHANGED <<inqueue, policyVars, issuedFor, threads>>

-----------------------------------------------------------------------------
(* The SendCertificates web service: the parent delivers certificates *)

SendCertificates(statusInfo, msgid, certificateSeq) ==
    LET sr == MapGet(outqueuemap, msgid)
        certlist == DecodedPrefix(certificateSeq)
        returnCode == IF AllDecode(certificateSeq)
                      THEN OK_RECEIVED_CORRECTLY ELSE FAILURE_SYNTAX
    IN  /\ IF sr = Inherited
           THEN \* sr is a function of Array.prototype: sr.setStatusInfo is undefined
                /\ UNCHANGED <<heap, store>>
                /\ response' = Threw("SendCertificates", msgid, certificateSeq, TypeError)
           ELSE IF sr # NotFound
           THEN /\ heap' = setFinalStatusInfo(setStatusInfo(heap, sr, statusInfo),
                                              sr, returnCode)
                /\ store' = importCertificates(store, certlist)
                /\ response' = Returned("SendCertificates", msgid, certificateSeq,
                                        returnCode, <<>>)
           ELSE /\ UNCHANGED <<heap, store>>
                /\ response' = Returned("SendCertificates", msgid, certificateSeq,
                                        FAILURE_MESSAGEID_UNKNOWN, <<>>)
        /\ UNCHANGED <<outqueue, outqueuemap, inqueue, policyVars, issuedFor, threads>>

-----------------------------------------------------------------------------
(* Terminal certificate policies *)

\* A policy object: the three switches checkPolicy reads.
Policy(initial, authenticated, declineExpired) ==
    [initialRequestsApproved           |-> initial,
     authenticatedRequestsApproved     |-> authenticated,
     declineExpiredAuthenticatedRequest |-> declineExpired]

\* Policy objects are named by their switches, i (initial requests approved),
\* a (authenticated requests approved), d (decline expired), "-" for off.
PolicyTable ==
    [name \in {"---", "--d", "-a-", "-ad", "i--", "i-d", "ia-", "iad"} |->
        Policy(name \in {"i--", "i-d", "ia-", "iad"},
               name \in {"-a-", "-ad", "ia-", "iad"},
               name \in {"--d", "-ad", "i-d", "iad"})]

Policies == DOMAIN PolicyTable

\* Holder references of requesting terminals.
HolderReferences == {"UTTERM00001", "DETERM00001", "UTCAM00001"}

\* The regular expressions used as rule patterns, with the holder references
\* each matches: chr.toString().match(p.regex)
RegexTable ==
    [regex \in {"^UT", "TERM", "^DE"} |->
        CASE regex = "^UT"  -> {"UTTERM00001", "UTCAM00001"}
          [] regex = "TERM" -> {"UTTERM00001", "DETERM00001"}
          [] regex = "^DE"  -> {"DETERM00001"}]

Regexes == DOMAIN RegexTable

Matches(chr, regex) == chr \in RegexTable[regex]

\* setTerminalCertificatePolicy(policy, chrregex): the rule list afterwards
PoliciesAfterSet(rules, policy, chrregex) ==
    IF chrregex # Undefined
    THEN Append(rules, [regex |-> chrregex, policy |-> policy])
    ELSE rules

setTerminalCertificatePolicy(policy, chrregex) ==
    /\ terminalCertificatePolicies' =
          PoliciesAfterSet(terminalCertificatePolicies, policy, chrregex)
    /\ terminalCertificatePolicy' =
          IF chrregex # Undefined THEN terminalCertificatePolicy ELSE policy
    /\ installed' = Append(installed, [regex |-> chrregex, policy |-> policy])
    /\ response' = Returned("setTerminalCertificatePolicy", chrregex, <<>>,
                            Undefined, <<>>)
    /\ UNCHANGED <<heap, outqueue, outqueuemap, inqueue, store, issuedFor, threads>>

\* The loop of getTerminalCertificatePolicyForCHR from index i on.
RECURSIVE PolicyFrom(_, _, _, _)
PolicyFrom(rules, default, chr, i) ==
    IF i > Len(rules) THEN default
    ELSE IF Matches(chr, rules[i].regex) THEN rules[i].policy
    ELSE PolicyFrom(rules, default, chr, i + 1)

\* A plausible slip: the loop does not stop at the first match.
RECURSIVE LastMatchFrom(_, _, _, _)
LastMatchFrom(rules, found, chr, i) ==
    IF i > Len(rules) THEN found
    ELSE LastMatchFrom(rules,
                       IF Matches(chr, rules[i].regex) THEN rules[i].policy ELSE found,
                       chr, i + 1)

PolicyForCHR_LastMatch(rules, default, chr) == LastMatchFrom(rules, default, chr, 1)

\* getTerminalCertificatePolicyForCHR(chr), given the rules and the default
PolicyForCHR(rules, default, chr) == PolicyFrom(rules, default, chr, 1)

getTerminalCertificatePolicyForCHR(chr) ==
    /\ response' = Returned("getTerminalCertificatePolicyForCHR", chr, <<>>,
                            PolicyForCHR(terminalCertificatePolicies,
                                         terminalCertificatePolicy, chr),
                            <<>>)
    /\ UNCHANGED <<heap, outqueue, outqueuemap, inqueue, policyVars, issuedFor, threads, store>>

-----------------------------------------------------------------------------
(* Certificate requests and the authority's own state *)

\* The authority's certificate when the service object is created.
CurrentCHR == "UTDVCA00001"

\* The public key algorithm of the authority's current certificate.
CurrentOID == "id-TA-ECDSA-SHA-256"

\* The authority's domain parameters: prime, A, B, Gx, Gy, order, cofactor.
CurrentDomainParameter == <<23, 1, 1, 3, 10, 28, 1>>

\* The authority's next certificate, which it holds once a renewal was
\* imported, and the domain parameters that come with it.
NextCHR == "UTDVCA00002"
NextDomainParameter == <<29, 4, 20, 1, 5, 37, 1>>

\* this.ss.getCurrentCHR(this.path)
getCurrentCHR(st) == IF NextCHR \in st THEN NextCHR ELSE CurrentCHR

\* this.ss.getDomainParameter(this.path, chr) for the current chr
getDomainParameter(st) ==
    IF getCurrentCHR(st) = NextCHR THEN NextDomainParameter
    ELSE CurrentDomainParameter

\* A terminal certificate issued before this service object was created.
EarlierTerminal == "UTTERM00000"

\* A request as the CVC accessors show it.
ValidInitialRequest ==
    [publicKey      |-> TRUE,              \* getPublicKey() does not throw
     innerSignature |-> TRUE,              \* verifyWith(crypto, puk)
     oid            |-> CurrentOID,        \* getPublicKeyOID()
     dp             |-> CurrentDomainParameter,
     authenticated  |-> FALSE,             \* isAuthenticatedRequest()
     outerCAR       |-> Null,              \* getOuterCAR()
     outerSignature |-> FALSE,             \* verifyATWith(crypto, puk)
     chr            |-> "DETERM00001",     \* getCHR()
     car            |-> CurrentCHR]        \* getCAR()

ValidAuthenticatedRequest ==
    [ValidInitialRequest EXCEPT !.authenticated = TRUE, !.outerCAR = EarlierTerminal,
                                !.outerSignature = TRUE, !.chr = "UTTERM00001"]

\* The requests a terminal may send, by name.
NamedRequests ==
    [name \in {"INITIAL", "AUTHENTICATED", "NOKEY", "BADINNER", "BADOID",
               "BADCOFACTOR", "UNKNOWNOUTER", "BADOUTER", "FOREIGNCAR"} |->
        CASE name = "INITIAL"       -> ValidInitialRequest
          [] name = "AUTHENTICATED" -> ValidAuthenticatedRequest
          [] name = "NOKEY"         -> [ValidInitialRequest EXCEPT !.publicKey = FALSE]
          [] name = "BADINNER"      -> [ValidInitialRequest EXCEPT !.innerSignature = FALSE]
          [] name = "BADOID"        -> [ValidInitialRequest EXCEPT !.oid = "id-TA-RSA-v1-5-SHA-1"]
          [] name = "BADCOFACTOR"   -> [ValidInitialRequest EXCEPT !.dp[7] = 2]
          [] name = "UNKNOWNOUTER"  -> [ValidAuthenticatedRequest EXCEPT !.outerCAR = "UTTERM00009"]
          [] name = "BADOUTER"      -> [ValidAuthenticatedRequest EXCEPT !.outerSignature = FALSE]
          [] name = "FOREIGNCAR"    -> [ValidInitialRequest EXCEPT !.car = "UTDVCA00000",
                                                                  !.chr = "UTCAM00001"]]

\* Requests that combine several defects.  A request of this family is named
\* by one mark per accessor: K or k (public key extracted or not), I or i
\* (inner signature verifies or not), O or o (algorithm matches or not), the
\* domain parameters (0: all match, 1..7: that component differs, 8: prime
\* and cofactor differ), N, A or U (not authenticated, authenticated with a
\* known, with an unknown outer reference), S or s (outer signature verifies
\* or not).
Mark(flag, yes, no) == IF flag THEN yes ELSE no

DomainParameterVariant(d) ==
    [i \in 1..7 |->
        IF d = i \/ (d = 8 /\ i \in {1, 7})
        THEN CurrentDomainParameter[i] + 1
        ELSE CurrentDomainParameter[i]]

CombinedName(k, i, o, d, a, sig) ==
    "REQ:" \o Mark(k, "K", "k") \o Mark(i, "I", "i") \o Mark(o, "O", "o")
        \o <<"0", "1", "2", "3", "4", "5", "6", "7", "8">>[d + 1]
        \o a \o Mark(sig, "S", "s")

CombinedRequest(k, i, o, d, a, sig) ==
    [publicKey      |-> k,
     innerSignature |-> i,
     oid            |-> IF o THEN CurrentOID ELSE "id-TA-RSA-v1-5-SHA-1",
     dp             |-> DomainParameterVariant(d),
     authenticated  |-> a # "N",
     outerCAR       |-> CASE a = "N" -> Null
                          [] a = "A" -> EarlierTerminal
                          [] a = "U" -> "UTTERM00009",
     outerSignature |-> sig,
     chr            |-> IF a = "N" THEN "DETERM00001" ELSE "UTTERM00001",
     car            |-> CurrentCHR]

CombinedRequests ==
    {<<CombinedName(k, i, o, d, a, sig), CombinedRequest(k, i, o, d, a, sig)>> :
        k \in BOOLEAN, i \in BOOLEAN, o \in BOOLEAN, d \in 0..8,
        a \in {"N", "A", "U"}, sig \in BOOLEAN}

CombinedNames == {r[1] : r \in CombinedRequests}

RequestTable ==
    [name \in DOMAIN NamedRequests \cup CombinedNames |->
        IF name \in DOMAIN NamedRequests
        THEN NamedRequests[name]
        ELSE (CHOOSE r \in CombinedRequests : r[1] = name)[2]]

Requests == DOMAIN RequestTable

\* new CVC(new ASN1(reqbin)) succeeds
RequestDecodes(reqbin) == \E name \in Requests : Base64(name) = reqbin

\* checkRequestSyntax(reqbin): the decoded request, or null
checkRequestSyntax(reqbin) ==
    IF RequestDecodes(reqbin)
    THEN CHOOSE name \in Requests : Base64(name) = reqbin
    ELSE Null

\* this.dvca.getIssuedCertificate(car) / getAuthenticPublicKey(car)
getIssuedCertificate(st, car) == IF car \in st THEN car ELSE Null

\* checkRequestSemantics accepting every request
checkRequestSemantics_Accepting(st, name) == OK_CERT_AVAILABLE

\* checkRequestSemantics without the comparison of the cofactor
checkRequestSemantics_NoCofactor(st, name) ==
    LET req == RequestTable[name]
        dp  == getDomainParameter(st)
    IN  IF ~req.publicKey THEN FAILURE_SYNTAX
        ELSE IF ~req.innerSignature THEN FAILURE_INNER_SIGNATURE
        ELSE IF req.oid # CurrentOID THEN FAILURE_SYNTAX
        ELSE IF \E i \in 1..6 : req.dp[i] # dp[i] THEN FAILURE_SYNTAX
        ELSE IF req.authenticated
             THEN IF getIssuedCertificate(st, req.outerCAR) # Null
                  THEN IF ~req.outerSignature THEN FAILURE_OUTER_SIGNATURE
                       ELSE OK_CERT_AVAILABLE
                  ELSE FAILURE_OUTER_SIGNATURE
        ELSE OK_CERT_AVAILABLE

\* checkRequestSemantics comparing the domain parameters before it verifies
\* the inner signature
checkRequestSemantics_ParametersFirst(st, name) ==
    LET req == RequestTable[name]
        dp  == getDomainParameter(st)
    IN  IF ~req.publicKey THEN FAILURE_SYNTAX
        ELSE IF \E i \in 1..7 : req.dp[i] # dp[i] THEN FAILURE_SYNTAX
        ELSE IF ~req.innerSignature THEN FAILURE_INNER_SIGNATURE
        ELSE IF req.oid # CurrentOID THEN FAILURE_SYNTAX
        ELSE IF req.authenticated
             THEN IF getIssuedCertificate(st, req.outerCAR) # Null
                  THEN IF ~req.outerSignature THEN FAILURE_OUTER_SIGNATURE
                       ELSE OK_CERT_AVAILABLE
                  ELSE FAILURE_OUTER_SIGNATURE
        ELSE OK_CERT_AVAILABLE

\* checkRequestSemantics answering a request whose public key cannot be
\* extracted as it answers one whose inner signature does not verify
checkRequestSemantics_KeyAsSignature(st, name) ==
    LET req == RequestTable[name]
        dp  == getDomainParameter(st)
    IN  IF ~req.publicKey THEN FAILURE_INNER_SIGNATURE
        ELSE IF ~req.innerSignature THEN FAILURE_INNER_SIGNATURE
        ELSE IF req.oid # CurrentOID THEN FAILURE_SYNTAX
        ELSE IF \E i \in 1..7 : req.dp[i] # dp[i] THEN FAILURE_SYNTAX
        ELSE IF req.authenticated
             THEN IF getIssuedCertificate(st, req.outerCAR) # Null
                  THEN IF ~req.outerSignature THEN FAILURE_OUTER_SIGNATURE
                       ELSE OK_CERT_AVAILABLE
                  ELSE FAILURE_OUTER_SIGNATURE
        ELSE OK_CERT_AVAILABLE

\* checkRequestSemantics(req), req a request name
checkRequestSemantics(st, name) ==
    LET req == RequestTable[name]
        dp  == getDomainParameter(st)
    IN  IF ~req.publicKey THEN FAILURE_SYNTAX
        ELSE IF ~req.innerSignature THEN FAILURE_INNER_SIGNATURE
        ELSE IF req.oid # CurrentOID THEN FAILURE_SYNTAX
        ELSE IF \/ req.dp[1] # dp[1] \/ req.dp[2] # dp[2] \/ req.dp[3] # dp[3]
                \/ req.dp[4] # dp[4] \/ req.dp[5] # dp[5] \/ req.dp[6] # dp[6]
                \/ req.dp[7] # dp[7]
             THEN FAILURE_SYNTAX
        ELSE IF req.authenticated
             THEN IF getIssuedCertificate(st, req.outerCAR) # Null
                  THEN IF ~req.outerSignature THEN FAILURE_OUTER_SIGNATURE
                       ELSE OK_CERT_AVAILABLE
                  ELSE FAILURE_OUTER_SIGNATURE
        ELSE OK_CERT_AVAILABLE

\* The domain parameter comparison of checkRequestSemantics
DomainParameterMatches(st, req) ==
    \A i \in 1..7 : req.dp[i] = getDomainParameter(st)[i]

\* The collaborator calls checkRequestSemantics(req) makes, in order: each
\* check is reached only if the ones before it passed.
checkRequestSemanticsCalls(st, name) ==
    LET req == RequestTable[name]
    IN  <<"getPublicKey">>
        \o (IF ~req.publicKey THEN <<>>
            ELSE <<"verifyWith">>
        \o (IF ~req.innerSignature THEN <<>>
            ELSE <<"getPublicKeyOID">>
        \o (IF req.oid # CurrentOID THEN <<>>
            ELSE <<"getDomainParameter">>
        \o (IF ~DomainParameterMatches(st, req) \/ ~req.authenticated THEN <<>>
            ELSE <<"getAuthenticPublicKey">>
        \o (IF getIssuedCertificate(st, req.outerCAR) = Null THEN <<>>
            ELSE <<"verifyATWith">>)))))

\* A call of checkRequestSemantics on its own.
CheckRequestSemantics(name) ==
    /\ response' = WithCalls(Returned("checkRequestSemantics", name, <<>>,
                                      checkRequestSemantics(store, name), <<>>),
                             checkRequestSemanticsCalls(store, name))
    /\ UNCHANGED <<heap, outqueue, outqueuemap, inqueue, policyVars, issuedFor, threads, store>>

-----------------------------------------------------------------------------
(* The policy check *)

\* Time is counted in hours; a day has 24 of them.
\* now.setHours(12, 0, 0, 0); now.valueOf()
NoonOf(now) == (now \div 24) * 24 + 12

\* cvc.getCXD().valueOf() of an issued terminal certificate
CertificateExpiry == 48

\* now.valueOf() > cvc.getCXD().valueOf()
IsExpired(now) == NoonOf(now) > CertificateExpiry

\* A plausible slip: the proposed return code is not looked at.
checkPolicy_NoPassThrough(rules, default, st, name, returnCode, callback, now) ==
    IF callback THEN OK_SYNTAX ELSE FAILURE_SYNCHRONOUS_PROCESSING_NOT_POSSIBLE

\* checkPolicy approving every request, whatever the semantic check found
checkPolicy_Approving(rules, default, st, name, returnCode, callback, now) ==
    OK_CERT_AVAILABLE

\* checkPolicy approving every initial request, whatever the policy says
checkPolicy_InitialApproved(rules, default, st, name, returnCode, callback, now) ==
    LET req    == RequestTable[name]
        policy == PolicyForCHR(rules, default, req.chr)
        deferred == IF callback THEN OK_SYNTAX
                    ELSE FAILURE_SYNCHRONOUS_PROCESSING_NOT_POSSIBLE
    IN  IF returnCode # OK_CERT_AVAILABLE THEN returnCode
        ELSE IF req.authenticated
        THEN IF getIssuedCertificate(st, req.outerCAR) = Null THEN TypeError
             ELSE IF policy = Undefined THEN TypeError
             ELSE IF IsExpired(now)
                  THEN IF PolicyTable[policy].declineExpiredAuthenticatedRequest
                       THEN FAILURE_OUTER_SIGNATURE ELSE deferred
                  ELSE IF PolicyTable[policy].authenticatedRequestsApproved
                       THEN OK_CERT_AVAILABLE ELSE deferred
        ELSE IF policy = Undefined THEN TypeError
             ELSE OK_CERT_AVAILABLE

\* checkPolicy(req, returnCode, callback): the return code, or TypeError when
\* the policy is undefined or the outer certificate is not found.
checkPolicy(rules, default, st, name, returnCode, callback, now) ==
    LET req    == RequestTable[name]
        policy == PolicyForCHR(rules, default, req.chr)
        deferred == IF callback THEN OK_SYNTAX
                    ELSE FAILURE_SYNCHRONOUS_PROCESSING_NOT_POSSIBLE
    IN  IF returnCode # OK_CERT_AVAILABLE THEN returnCode
        ELSE IF req.authenticated
        THEN IF getIssuedCertificate(st, req.outerCAR) = Null THEN TypeError
             ELSE IF policy = Undefined THEN TypeError
             ELSE IF IsExpired(now)
                  THEN IF PolicyTable[policy].declineExpiredAuthenticatedRequest
                       THEN FAILURE_OUTER_SIGNATURE ELSE deferred
                  ELSE IF PolicyTable[policy].authenticatedRequestsApproved
                       THEN OK_CERT_AVAILABLE ELSE deferred
        ELSE IF policy = Undefined THEN TypeError
             ELSE IF PolicyTable[policy].initialRequestsApproved
                  THEN OK_CERT_AVAILABLE ELSE deferred

\* A call of checkPolicy on its own, as RequestCertificate makes it.
CheckPolicy(name, returnCode, callback, now) ==
    LET code == checkPolicy(terminalCertificatePolicies, terminalCertificatePolicy,
                            store, name, returnCode, callback, now)
    IN  /\ response' = IF code = TypeError
                       THEN Threw("checkPolicy", name, <<>>, TypeError)
                       ELSE Returned("checkPolicy", name, <<>>, code, <<>>)
        /\ UNCHANGED <<heap, outqueue, outqueuemap, inqueue, policyVars, issuedFor, threads, store>>

-----------------------------------------------------------------------------
(* Issuing certificates *)

\* this.dvca.getCertificateList(): the chain down to this authority
CertificateList(st) ==
    SelectSeq(<<"CVCA", "LINK", CurrentCHR, NextCHR>>, LAMBDA c : c \in st)

\* determineCertificateList(req)
determineCertificateList(st, name) ==
    LET car == RequestTable[name].car
    IN  IF car # Null /\ car = getCurrentCHR(st) THEN <<>> ELSE CertificateList(st)

\* this.dvca.generateCertificate(req, policy): the certificate for the
\* holder reference of the request
GenerateCertificate(name) == RequestTable[name].chr

\* issueCertificate without this.dvca.storeCertificate(cert)
StoreAfterIssue_NotStored(st, name) == st

\* issueCertificate(req): the store after this.dvca.storeCertificate(cert)
StoreAfterIssue(st, name) == st \cup {GenerateCertificate(name)}

-----------------------------------------------------------------------------
(* The inbound web services *)

CALLBACK_POSSIBLE == "callback_possible"
CALLBACK_NOT_POSSIBLE == "callback_not_possible"

\* GetCACertificates queuing the request whatever the callback indicator
GetCACertificates_AlwaysQueue(callbackIndicator, messageID, responseURL) ==
    /\ heap' = Append(heap, NewServiceRequest(messageID, responseURL, Undefined))
    /\ inqueue' = Append(inqueue, Len(heap) + 1)
    /\ response' = Returned("GetCACertificates", messageID, <<>>, OK_SYNTAX, <<>>)
    /\ UNCHANGED <<outqueue, outqueuemap, policyVars, issuedFor, threads, store>>

\* GetCACertificates(soapBody)
GetCACertificates(callbackIndicator, messageID, responseURL) ==
    LET asyncreq == Len(heap) + 1
    IN  /\ IF callbackIndicator = CALLBACK_POSSIBLE
           THEN /\ heap' = Append(heap, NewServiceRequest(messageID, responseURL,
                                                           Undefined))
                /\ inqueue' = Append(inqueue, asyncreq)
                /\ response' = Returned("GetCACertificates", messageID, <<>>,
                                        OK_SYNTAX, <<>>)
           ELSE /\ UNCHANGED <<heap, inqueue>>
                /\ response' = Returned("GetCACertificates", messageID, <<>>,
                                        OK_CERT_AVAILABLE, CertificateList(store))
        /\ UNCHANGED <<outqueue, outqueuemap, policyVars, issuedFor, threads, store>>

\* RequestCertificate(soapBody).  issueFails: generating or storing the
\* certificate throws.  Whatever is thrown inside the try block is answered
\* with failure_syntax; the certificate list keeps what it was assigned.
RequestCertificate(certReq, callbackIndicator, messageID, responseURL, now, issueFails) ==
    LET req      == checkRequestSyntax(certReq)
        semantic == checkRequestSemantics(store, req)
        decided  == checkPolicy(terminalCertificatePolicies, terminalCertificatePolicy,
                                store, req, semantic,
                                callbackIndicator = CALLBACK_POSSIBLE, now)
        asyncreq == Len(heap) + 1
        queued   == [NewServiceRequest(messageID, responseURL, req)
                        EXCEPT !.statusInfo = decided]
        certlist == determineCertificateList(store, req)
    IN  /\ IF req = Null
           THEN /\ UNCHANGED <<heap, inqueue, store>>
                /\ response' = Returned("RequestCertificate", messageID, <<certReq>>,
                                        FAILURE_SYNTAX, <<>>)
           ELSE IF decided = TypeError
           THEN /\ UNCHANGED <<heap, inqueue, store>>
                /\ response' = Returned("RequestCertificate", messageID, <<certReq>>,
                                        FAILURE_SYNTAX, <<>>)
           ELSE IF decided = OK_SYNTAX
           THEN /\ heap' = Append(heap, queued)
                /\ inqueue' = Append(inqueue, asyncreq)
                /\ store' = store
                /\ response' = Returned("RequestCertificate", messageID, <<certReq>>,
                                        OK_SYNTAX, <<>>)
           ELSE IF decided = OK_CERT_AVAILABLE
           THEN IF issueFails
                THEN /\ UNCHANGED <<heap, inqueue, store>>
                     /\ response' = Returned("RequestCertificate", messageID,
                                             <<certReq>>, FAILURE_SYNTAX, certlist)
                ELSE /\ UNCHANGED <<heap, inqueue>>
                     /\ store' = StoreAfterIssue(store, req)
                     /\ response' = Returned("RequestCertificate", messageID,
                                             <<certReq>>, OK_CERT_AVAILABLE,
                                             Append(certlist, GenerateCertificate(req)))
           ELSE /\ UNCHANGED <<heap, inqueue, store>>
                /\ response' = Returned("RequestCertificate", messageID, <<certReq>>,
                                        decided, <<>>)
        /\ UNCHANGED <<outqueue, outqueuemap, policyVars, issuedFor, threads>>

-----------------------------------------------------------------------------
(* Work on the inbound queue *)

\* sendCertificates(serviceRequest, certificates): the heap after the call,
\* given the terminal's answer; a transport failure leaves it as it is.
sendCertificates(h, sr, reply) ==
    IF reply.transport = "failed" THEN h
    ELSE setFinalStatusInfo(h, sr, reply.returnCode)

\* processInboundRequest(index).  index counts from 0.  An index past the end
\* gives undefined, and so does the status of a queued GetCACertificates
\* request, which was never set: the call on it is a TypeError.
processInboundRequest(index, reply) ==
    IF index + 1 \notin 1..Len(inqueue)
    THEN /\ response' = Threw("processInboundRequest", Undefined, <<>>, TypeError)
         /\ UNCHANGED <<heap, outqueue, outqueuemap, inqueue, policyVars, store,
                        issuedFor, threads>>
    ELSE
    LET sr       == inqueue[index + 1]
        status   == heap[sr].statusInfo
        req      == heap[sr].certificateRequest
        approved == isCertificateRequest(heap, sr) /\ status = OK_CERT_AVAILABLE
        recheck  == IF approved THEN checkRequestSemantics(store, req) ELSE Undefined
        issues   == approved /\ recheck = OK_CERT_AVAILABLE
        certlist == IF issues
                    THEN Append(determineCertificateList(store, req),
                                GenerateCertificate(req))
                    ELSE IF ~isCertificateRequest(heap, sr) /\ IsOk(status)
                    THEN CertificateList(store)
                    ELSE <<>>
        h1       == IF approved /\ ~issues THEN setStatusInfo(heap, sr, recheck)
                    ELSE heap
        calls    == (IF approved THEN <<"checkRequestSemantics">> ELSE <<>>)
                    \o (IF issues THEN <<"issueCertificate">> ELSE <<>>)
                    \o SoapCalled
    IN  IF ~isCertificateRequest(heap, sr) /\ status = Undefined
        THEN /\ response' = Threw("processInboundRequest", heap[sr].messageID,
                                  <<>>, TypeError)
             /\ UNCHANGED <<heap, outqueue, outqueuemap, inqueue, policyVars, store,
                            issuedFor, threads>>
        ELSE /\ store' = IF issues THEN StoreAfterIssue(store, req) ELSE store
             /\ heap' = sendCertificates(h1, sr, reply)
             /\ issuedFor' = IF issues
                             THEN Append(issuedFor,
                                         [sr |-> sr,
                                          delivered |-> reply.transport # "failed"])
                             ELSE issuedFor
             /\ response' =
                   IF reply.transport = "failed"
                   THEN WithCalls(Threw("processInboundRequest", heap[sr].messageID,
                                        certlist, DeviceError), calls)
                   ELSE WithCalls(Returned("processInboundRequest",
                                           heap[sr].messageID, certlist,
                                           reply.returnCode, <<>>), calls)
             /\ UNCHANGED <<outqueue, outqueuemap, inqueue, policyVars, threads>>

\* deleteInboundRequest(index): this.inqueue.splice(index, 1), index >= 0
deleteInboundRequest(index) ==
    /\ inqueue' = [i \in 1..(Len(inqueue) - (IF index < Len(inqueue) THEN 1 ELSE 0)) |->
                      IF i <= index THEN inqueue[i] ELSE inqueue[i + 1]]
    /\ response' = Returned("deleteInboundRequest", Undefined, <<>>, Undefined, <<>>)
    /\ UNCHANGED <<heap, outqueue, outqueuemap, policyVars, store, issuedFor, threads>>

\* The operator approves a queued request:
\* getInboundRequest(index).setStatusInfo(ServiceRequest.OK_CERT_AVAILABLE)
approveInboundRequest(index) ==
    /\ index + 1 \in 1..Len(inqueue)
    /\ heap' = setStatusInfo(heap, inqueue[index + 1], OK_CERT_AVAILABLE)
    /\ response' = Returned("approveInboundRequest",
                            heap[inqueue[index + 1]].messageID, <<>>, Undefined, <<>>)
    /\ UNCHANGED <<outqueue, outqueuemap, inqueue, policyVars, store, issuedFor, threads>>

-----------------------------------------------------------------------------
(* Threads inside addOutboundRequest and SendCertificates *)

Threads == {"A", "B"}

\* A thread that is in no call.
Idle == [pc |-> "idle", sr |-> 0, oldsr |-> 0, msgid |-> Undefined]

\* The thread t moves to pc with its local variables sr, oldsr and msgid.
At(t, pc, sr, oldsr, msgid) ==
    [threads EXCEPT ![t] = [pc |-> pc, sr |-> sr, oldsr |-> oldsr, msgid |-> msgid]]

\* updateCACertificates(true) up to its call of addOutboundRequest(sr):
\* the message id is drawn and the ServiceRequest created.
EnterAddOutboundRequest(t, rnd) ==
    /\ threads[t].pc = "idle"
    /\ heap' = Append(heap, NewServiceRequest(GenerateMessageID(TRUE, rnd), MyURL,
                                              Undefined))
    /\ threads' = At(t, "test", Len(heap) + 1, 0, Undefined)
    /\ UNCHANGED <<outqueue, outqueuemap, inqueue, policyVars, store, response,
                   issuedFor>>

\* if (this.outqueue.length >= 10)
TestLength(t) ==
    /\ threads[t].pc = "test"
    /\ threads' = At(t, IF Len(outqueue) >= QueueCapacity THEN "shift" ELSE "push",
                     threads[t].sr, 0, Undefined)
    /\ UNCHANGED <<heap, outqueue, outqueuemap, inqueue, policyVars, store, response,
                   issuedFor>>

\* var oldsr = this.outqueue.shift(); var msgid = oldsr.getMessageID();
\* shift() on an empty array gives undefined, and the call on it a TypeError
\* that ends updateCACertificates.
ShiftOldest(t) ==
    /\ threads[t].pc = "shift"
    /\ IF outqueue = <<>>
       THEN /\ threads' = [threads EXCEPT ![t] = Idle]
            /\ response' = Threw("updateCACertificates",
                                 heap[threads[t].sr].messageID, <<>>, TypeError)
            /\ outqueue' = outqueue
       ELSE /\ outqueue' = Tail(outqueue)
            /\ threads' = At(t, "delete", threads[t].sr, Head(outqueue),
                             heap[Head(outqueue)].messageID)
            /\ response' = response
    /\ UNCHANGED <<heap, outqueuemap, inqueue, policyVars, store, issuedFor>>

\* if (msgid) { delete(this.outqueuemap[msgid]); }
DeleteIndexed(t) ==
    /\ threads[t].pc = "delete"
    /\ outqueuemap' = IF Truthy(threads[t].msgid)
                      THEN MapDelete(outqueuemap, threads[t].msgid)
                      ELSE outqueuemap
    /\ threads' = At(t, "push", threads[t].sr, threads[t].oldsr, threads[t].msgid)
    /\ UNCHANGED <<heap, outqueue, inqueue, policyVars, store, response, issuedFor>>

\* this.outqueue.push(sr); var msgid = sr.getMessageID();
PushRequest(t) ==
    /\ threads[t].pc = "push"
    /\ outqueue' = Append(outqueue, threads[t].sr)
    /\ threads' = At(t, "put", threads[t].sr, threads[t].oldsr,
                     heap[threads[t].sr].messageID)
    /\ UNCHANGED <<heap, outqueuemap, inqueue, policyVars, store, response, issuedFor>>

\* if (msgid) { this.outqueuemap[msgid] = sr; } and the rest of
\* updateCACertificates(true): the parent acknowledges the call.
PutIndexed(t) ==
    /\ threads[t].pc = "put"
    /\ outqueuemap' = IF Truthy(threads[t].msgid)
                      THEN MapPut(outqueuemap, threads[t].msgid, threads[t].sr)
                      ELSE outqueuemap
    /\ heap' = setStatusInfo(heap, threads[t].sr, OK_SYNTAX)
    /\ threads' = [threads EXCEPT ![t] = Idle]
    /\ response' = WithCalls(Returned("updateCACertificates", threads[t].msgid,
                                      <<>>, Undefined, <<>>), SoapCalled)
    /\ UNCHANGED <<outqueue, inqueue, policyVars, store, issuedFor>>

\* SendCertificates up to if (sr): var sr = this.outqueuemap[msgid]
LookupDelivery(t, msgid, certificateSeq) ==
    LET sr == MapGet(outqueuemap, msgid)
    IN  /\ threads[t].pc = "idle"
        /\ IF sr = Inherited
           THEN /\ threads' = threads
                /\ response' = Threw("SendCertificates", msgid, certificateSeq,
                                     TypeError)
           ELSE IF sr = NotFound
           THEN /\ threads' = threads
                /\ response' = Returned("SendCertificates", msgid, certificateSeq,
                                        FAILURE_MESSAGEID_UNKNOWN, <<>>)
           ELSE /\ threads' = At(t, "deliver", sr, 0, msgid)
                /\ response' = response
        /\ UNCHANGED <<heap, outqueue, outqueuemap, inqueue, policyVars, store,
                       issuedFor>>

\* SendCertificates from sr.setStatusInfo(statusInfo) to its end
ApplyDelivery(t, statusInfo, certificateSeq) ==
    LET sr == threads[t].sr
        returnCode == IF AllDecode(certificateSeq)
                      THEN OK_RECEIVED_CORRECTLY ELSE FAILURE_SYNTAX
    IN  /\ threads[t].pc = "deliver"
        /\ heap' = setFinalStatusInfo(setStatusInfo(heap, sr, statusInfo),
                                      sr, returnCode)
        /\ store' = importCertificates(store, DecodedPrefix(certificateSeq))
        /\ threads' = [threads EXCEPT ![t] = Idle]
        /\ response' = Returned("SendCertificates", threads[t].msgid,
                                certificateSeq, returnCode, <<>>)
        /\ UNCHANGED <<outqueue, outqueuemap, inqueue, policyVars, issuedFor>>

\* updateCACertificates(async) up to soapConnection.call in
\* getCACertificatesFromCVCA: the request is created, queued and indexed, and
\* the thread waits for the parent.
CallParent(t, async, rnd) ==
    LET sr    == Len(heap) + 1
        h1    == Append(heap, NewServiceRequest(GenerateMessageID(async, rnd),
                                                MyURL, Undefined))
        added == addOutboundRequest(outqueue, outqueuemap, h1, sr)
    IN  /\ threads[t].pc = "idle"
        /\ heap' = h1
        /\ outqueue' = added.queue
        /\ outqueuemap' = added.map
        /\ threads' = At(t, "call", sr, 0, h1[sr].messageID)
        /\ UNCHANGED <<inqueue, policyVars, store, response, issuedFor>>

\* updateCACertificates(async) from the return of soapConnection.call
ParentAnswers(t, reply) ==
    LET sr  == threads[t].sr
        seq == IF reply.returnCode = OK_CERT_AVAILABLE
               THEN reply.certificateSeq ELSE <<>>
    IN  /\ threads[t].pc = "call"
        /\ threads' = [threads EXCEPT ![t] = Idle]
        /\ IF reply.transport = "failed"
           THEN /\ UNCHANGED <<heap, store>>
                /\ response' = WithCalls(Threw("updateCACertificates",
                                               threads[t].msgid, <<>>, Uncaught),
                                         SoapCalled)
           ELSE IF ~AllDecode(seq)
           THEN /\ heap' = setStatusInfo(heap, sr, reply.returnCode)
                /\ store' = store
                /\ response' = WithCalls(Threw("updateCACertificates",
                                               threads[t].msgid, <<>>, Uncaught),
                                         SoapCalled)
           ELSE /\ heap' = setStatusInfo(heap, sr, reply.returnCode)
                /\ store' = StoreAfterImport(store, DecodedPrefix(seq))
                /\ response' = WithCalls(Returned("updateCACertificates",
                                                  threads[t].msgid, <<>>,
                                                  Undefined, <<>>),
                                         SoapCalled)
        /\ UNCHANGED <<outqueue, outqueuemap, inqueue, policyVars, issuedFor>>

-----------------------------------------------------------------------------
(* The state after new DVCAService(path, name, parent, parentURL) *)

\* The certificate store on disk holds the trust anchor, the authority's own
\* certificate and a terminal certificate issued earlier.
Init ==
    /\ heap = <<>>
    /\ outqueue = <<>>
    /\ outqueuemap = EmptyMap
    /\ inqueue = <<>>
    /\ terminalCertificatePolicies = <<>>
    /\ terminalCertificatePolicy = Undefined
    /\ installed = <<>>
    /\ store = {"CVCA", CurrentCHR, EarlierTerminal}
    /\ response = Returned("new", Null, <<>>, Undefined, <<>>)
    /\ issuedFor = <<>>
    /\ threads = [t \in Threads |-> Idle]

-----------------------------------------------------------------------------
(* Outbound requests whose message ids are pairwise distinct *)

\* The number of outbound requests made in one run.
MaxOutbound == 11

\* The parent acknowledges an asynchronous request and will deliver later.
Acknowledged == ParentReply("ok", OK_SYNTAX, <<>>)

\* Every generateRandom(2) yields a value it has not yielded before: the
\* values are opaque, so the n-th call yielding n stands for every such run.
FreshRandom == Len(heap)

FreshUpdate ==
    /\ Len(heap) < MaxOutbound
    /\ \E async \in BOOLEAN :
          updateCACertificates(async, FreshRandom, Acknowledged)

FreshRenew ==
    /\ Len(heap) < MaxOutbound
    /\ renewCertificate(TRUE, FALSE, FreshRandom, Acknowledged)

NextFresh == FreshUpdate \/ FreshRenew

SpecFresh == Init /\ [][NextFresh]_vars

-----------------------------------------------------------------------------
(* Outbound requests whose message ids may collide *)

\* Two values the two random bytes may take; generateRandom may repeat one.
RandomValues == {4660, 43981}

QueueUpdate ==
    /\ Len(heap) < MaxOutbound
    /\ updateCACertificates(FALSE, 0, Acknowledged)

QueueRenew ==
    /\ Len(heap) < MaxOutbound
    /\ \E rnd \in RandomValues :
          renewCertificate(TRUE, FALSE, rnd, Acknowledged)

NextQueue == QueueUpdate \/ QueueRenew

SpecQueue == Init /\ [][NextQueue]_vars

-----------------------------------------------------------------------------
(* The outbound queue: claims *)

\* The requests that were queued outbound and have since been evicted.
Evicted == {sr \in 1..Len(heap) : sr \notin Range(outqueue)}

\* C1: whatever outbound calls were made, the outbound queue never holds
\* more than 10 entries.
OutboundQueueBounded == Len(outqueue) <= QueueCapacity

\* More than 10 requests were queued and the queue is full.
OutboundQueueFullAfterEviction ==
    Len(heap) > QueueCapacity /\ Len(outqueue) = QueueCapacity

\* Every outbound request made so far carries a message id, and no two carry
\* the same one.
DistinctMessageIDs ==
    /\ \A sr \in 1..Len(heap) : Truthy(heap[sr].messageID)
    /\ \A a, b \in 1..Len(heap) : a # b => heap[a].messageID # heap[b].messageID

\* C3: after N > 10 outbound requests with pairwise distinct message ids the
\* queue holds exactly the last 10 of them, oldest first, and a lookup of the
\* message id of any evicted request finds nothing.
LastTenRemain ==
    (Len(heap) > QueueCapacity /\ DistinctMessageIDs) =>
        /\ outqueue = [i \in 1..QueueCapacity |-> Len(heap) - QueueCapacity + i]
        /\ \A sr \in Evicted : MapGet(outqueuemap, heap[sr].messageID) = NotFound

\* Eleven requests with distinct ids were made: the first one is gone.
ElevenDistinctQueued ==
    /\ Len(heap) > QueueCapacity
    /\ DistinctMessageIDs
    /\ 1 \in Evicted

\* C4: every request the index maps a message id to is in the outbound list,
\* also when message ids are reused.
IndexWithinList ==
    \A msgid \in DOMAIN outqueuemap : outqueuemap[msgid] \in Range(outqueue)

\* A message id was used twice, a request has been evicted and the index still
\* holds an entry.
ReusedIdAfterEviction ==
    /\ Evicted # {}
    /\ DOMAIN outqueuemap # {}
    /\ \E a, b \in 1..Len(heap) :
          a # b /\ Truthy(heap[a].messageID) /\ heap[a].messageID = heap[b].messageID

\* C5: every queued outbound request that carries a message id has exactly
\* one index entry pointing at it, also when two requests drew the same id.
EveryIdentifiedEntryIndexed ==
    \A i \in 1..Len(outqueue) :
        Truthy(heap[outqueue[i]].messageID) =>
            Cardinality({msgid \in DOMAIN outqueuemap :
                            outqueuemap[msgid] = outqueue[i]}) = 1

-----------------------------------------------------------------------------
(* Outbound requests and the deliveries that answer them *)

\* The number of outbound requests made in one run with deliveries.
MaxAwaited == 2

\* What the parent may answer to an outbound call.
DeliveryReplies ==
    {ParentReply("failed", Undefined, <<>>),
     Acknowledged,
     ParentReply("ok", OK_CERT_AVAILABLE, <<Base64("LINK")>>)}

\* The message ids a SendCertificates call may name: the ids the service may
\* have drawn, one it never drew, and the name of an Array method.
DeliveryMessageIDs == {ToHex(rnd) : rnd \in RandomValues} \cup {"FFFF", "push"}

\* The certificate sequences a SendCertificates call may carry.
DeliverySeqs ==
    {<<>>, <<Base64("LINK")>>, <<Garbage>>, <<Base64("LINK"), Garbage>>,
     <<Base64("FOREIGN"), Base64("LINK")>>}

DeliveryUpdate ==
    /\ Len(heap) < MaxAwaited
    /\ \E reply \in DeliveryReplies :
          updateCACertificates(TRUE, CHOOSE rnd \in RandomValues : TRUE, reply)

DeliveryRenew ==
    /\ Len(heap) < MaxAwaited
    /\ \E async \in BOOLEAN, rnd \in RandomValues, reply \in DeliveryReplies :
          renewCertificate(async, FALSE, rnd, reply)

DeliverySend ==
    \E msgid \in DeliveryMessageIDs, certificateSeq \in DeliverySeqs :
        SendCertificates(OK_CERT_AVAILABLE, msgid, certificateSeq)

NextDelivery == DeliveryUpdate \/ DeliveryRenew \/ DeliverySend

SpecDelivery == Init /\ [][NextDelivery]_vars

\* No request in the outbound queue carries msgid.
NoQueuedRequestCarries(msgid) ==
    \A i \in 1..Len(outqueue) : heap[outqueue[i]].messageID # msgid

\* C6: SendCertificates with a message id that no queued outbound request
\* carries answers failure_messageid_unknown and changes neither queue, nor
\* the index, nor any ServiceRequest, nor the certificate store.
UnknownMessageIDRejected ==
    [][\A msgid \in DeliveryMessageIDs, certificateSeq \in DeliverySeqs :
          (/\ SendCertificates(OK_CERT_AVAILABLE, msgid, certificateSeq)
           /\ NoQueuedRequestCarries(msgid))
          => /\ response'.error = NoError
             /\ response'.result = FAILURE_MESSAGEID_UNKNOWN
             /\ UNCHANGED <<heap, outqueue, outqueuemap, inqueue, store>>]_vars

\* C7: a delivery for a known message id in which some certificate does not
\* decode answers failure_syntax and imports none of the certificates.
UndecodableDeliveryImportsNothing ==
    [][\A msgid \in DeliveryMessageIDs, certificateSeq \in DeliverySeqs :
          (/\ SendCertificates(OK_CERT_AVAILABLE, msgid, certificateSeq)
           /\ ~NoQueuedRequestCarries(msgid)
           /\ ~AllDecode(certificateSeq))
          => /\ response'.result = FAILURE_SYNTAX
             /\ store' = store]_vars

\* C8: once a ServiceRequest's finalStatusInfo is set it never changes.
FinalStatusSetOnce ==
    [][\A sr \in 1..Len(heap) :
          heap[sr].finalStatusInfo # Undefined
              => heap'[sr].finalStatusInfo = heap[sr].finalStatusInfo]_vars

\* C15: every inbound call returns a response with a return code; none ends
\* by raising an error.
InboundCallAnswered ==
    response.op \in {"GetCACertificates", "RequestCertificate", "SendCertificates"}
    => /\ response.error = NoError
       /\ response.result # Undefined

\* The parent's side of a call that fails in transport.
TransportFailed == ParentReply("failed", Undefined, <<>>)

\* C16: when the remote call of updateCACertificates or of renewCertificate
\* fails in transport, the flow ends with a device error for its caller, the
\* remote call was made exactly once, and no certificate is imported.
TransportFailureIsDeviceError ==
    [][\A async \in BOOLEAN, rnd \in RandomValues :
          (\/ updateCACertificates(async, rnd, TransportFailed)
           \/ renewCertificate(async, FALSE, rnd, TransportFailed))
          => /\ response'.error = DeviceError
             /\ response'.calls = SoapCalled
             /\ store' = store]_vars

-----------------------------------------------------------------------------
(* Inbound requests that are queued for a later answer *)

\* The number of inbound requests queued in one run.
MaxInbound == 11

InboundSetPolicy ==
    /\ terminalCertificatePolicy = Undefined
    /\ setTerminalCertificatePolicy("---", Undefined)

InboundGetCACertificates ==
    /\ Len(inqueue) < MaxInbound
    /\ \E callbackIndicator \in {CALLBACK_POSSIBLE, CALLBACK_NOT_POSSIBLE} :
          GetCACertificates(callbackIndicator, "0001", "http://terminal/SendCertificates")

InboundRequestCertificate ==
    /\ Len(inqueue) < MaxInbound
    /\ \E certReq \in {Base64("INITIAL"), Garbage} :
          RequestCertificate(certReq, CALLBACK_POSSIBLE, "0002",
                             "http://terminal/SendCertificates", 0, FALSE)

NextInbound == InboundSetPolicy \/ InboundGetCACertificates \/ InboundRequestCertificate

SpecInbound == Init /\ [][NextInbound]_vars

\* C2: whatever inbound GetCACertificates and RequestCertificate calls were
\* made, the inbound queue never holds more than 10 entries.
InboundQueueBounded == Len(inqueue) <= QueueCapacity

-----------------------------------------------------------------------------
(* Installing policy rules and resolving a holder reference *)

\* The number of setTerminalCertificatePolicy calls in one run.
MaxInstalled == 3

ResolveSetPolicy ==
    /\ Len(installed) < MaxInstalled
    /\ \E policy \in {"---", "i--", "iad"}, chrregex \in Regexes \cup {Undefined} :
          setTerminalCertificatePolicy(policy, chrregex)

ResolveGetPolicy ==
    \E chr \in HolderReferences : getTerminalCertificatePolicyForCHR(chr)

NextResolve == ResolveSetPolicy \/ ResolveGetPolicy

SpecResolve == Init /\ [][NextResolve]_vars

Min(S) == CHOOSE x \in S : \A y \in S : x <= y
Max(S) == CHOOSE x \in S : \A y \in S : x >= y

\* The setTerminalCertificatePolicy calls that gave a pattern matching chr,
\* and those that gave no pattern, by their position in the order of calls.
InstalledMatching(chr) ==
    {i \in 1..Len(installed) :
        installed[i].regex # Undefined /\ Matches(chr, installed[i].regex)}

InstalledDefaults == {i \in 1..Len(installed) : installed[i].regex = Undefined}

\* C9: getTerminalCertificatePolicyForCHR returns the policy of the first
\* installed rule whose pattern matches the holder reference, and the policy
\* installed without a pattern when no rule matches.
FirstMatchingRuleWins ==
    response.op = "getTerminalCertificatePolicyForCHR" =>
        response.result =
            IF InstalledMatching(response.key) # {}
            THEN installed[Min(InstalledMatching(response.key))].policy
            ELSE IF InstalledDefaults # {}
            THEN installed[Max(InstalledDefaults)].policy
            ELSE Undefined

\* A holder reference was resolved that two rules with different policies
\* match.
TwoRulesMatched ==
    /\ response.op = "getTerminalCertificatePolicyForCHR"
    /\ \E i, j \in InstalledMatching(response.key) :
          i < j /\ installed[i].policy # installed[j].policy

-----------------------------------------------------------------------------
(* The policy check on its own *)

\* The number of setTerminalCertificatePolicy calls before policy checks.
MaxDecideInstalled == 1

\* The times at which a request may arrive: the morning of the day before
\* the certificate expires, the last hour of that day, and the first hour of
\* the day of expiry.
Clock == {30, 47, 49}

SemanticOutcomes ==
    {OK_CERT_AVAILABLE, FAILURE_SYNTAX, FAILURE_INNER_SIGNATURE, FAILURE_OUTER_SIGNATURE}

DecideSetPolicy ==
    /\ Len(installed) < MaxDecideInstalled
    /\ \E policy \in Policies, chrregex \in {"^UT", Undefined} :
          setTerminalCertificatePolicy(policy, chrregex)

DecideCheckPolicy ==
    \E name \in {"INITIAL", "AUTHENTICATED"}, returnCode \in SemanticOutcomes,
       callback \in BOOLEAN, now \in Clock :
        CheckPolicy(name, returnCode, callback, now)

NextDecide == DecideSetPolicy \/ DecideCheckPolicy

SpecDecide == Init /\ [][NextDecide]_vars

\* What checkPolicy is to return for a request under a policy.
PolicyDecision(policy, name, semantic, callback, now) ==
    LET authenticated == RequestTable[name].authenticated
        switches == PolicyTable[policy]
    IN  IF semantic # OK_CERT_AVAILABLE THEN semantic
        ELSE IF authenticated /\ IsExpired(now)
                /\ switches.declineExpiredAuthenticatedRequest
        THEN FAILURE_OUTER_SIGNATURE
        ELSE IF \/ authenticated /\ ~IsExpired(now)
                   /\ switches.authenticatedRequestsApproved
                \/ ~authenticated /\ switches.initialRequestsApproved
        THEN OK_CERT_AVAILABLE
        ELSE IF callback THEN OK_SYNTAX
        ELSE FAILURE_SYNCHRONOUS_PROCESSING_NOT_POSSIBLE

\* The policy the installed rules give the request's holder reference.
PolicyOf(name) ==
    PolicyForCHR(terminalCertificatePolicies, terminalCertificatePolicy,
                 RequestTable[name].chr)

\* C10: for every semantic outcome, kind of request, time, policy and
\* callback capability, checkPolicy returns the semantic outcome unchanged
\* if it is a failure, and else what the policy's switches decide.
PolicyCheckDecides ==
    [][\A name \in {"INITIAL", "AUTHENTICATED"}, returnCode \in SemanticOutcomes,
          callback \in BOOLEAN, now \in Clock :
          (CheckPolicy(name, returnCode, callback, now) /\ PolicyOf(name) # Undefined)
          => /\ response'.error = NoError
             /\ response'.result =
                   PolicyDecision(PolicyOf(name), name, returnCode, callback, now)]_vars

\* An authenticated request under a rule's policy was deferred without a
\* callback.
AuthenticatedRequestDeferred ==
    /\ response.op = "checkPolicy"
    /\ response.key = "AUTHENTICATED"
    /\ response.result = FAILURE_SYNCHRONOUS_PROCESSING_NOT_POSSIBLE
    /\ Len(terminalCertificatePolicies) > 0

-----------------------------------------------------------------------------
(* The semantic check on its own *)

SemanticsCheck ==
    \E name \in Requests : CheckRequestSemantics(name)

NextSemantics == SemanticsCheck

SpecSemantics == Init /\ [][NextSemantics]_vars

\* The request the last call of checkRequestSemantics was about.
Checked == RequestTable[response.key]

\* The components in which a request's domain parameters differ from the
\* authority's.
DifferingComponents(req) ==
    {i \in 1..7 : req.dp[i] # CurrentDomainParameter[i]}

\* C11 as stated: every request whose domain parameters differ in exactly
\* one component is rejected with failure_syntax.
OneDifferingComponentIsSyntax ==
    (response.op = "checkRequestSemantics"
        /\ Cardinality(DifferingComponents(Checked)) = 1)
    => response.result = FAILURE_SYNTAX

\* C11: a request whose domain parameters differ in exactly one component is
\* never rejected with failure_outer_signature and never accepted; it is
\* rejected with failure_syntax, unless its public key can be extracted and
\* its inner signature does not verify, which is found first and rejected
\* with failure_inner_signature.
OneDifferingComponentRejected ==
    (response.op = "checkRequestSemantics"
        /\ Cardinality(DifferingComponents(Checked)) = 1)
    => response.result =
          IF Checked.publicKey /\ ~Checked.innerSignature
          THEN FAILURE_INNER_SIGNATURE
          ELSE FAILURE_SYNTAX

\* An authenticated request with a verifying inner signature, whose outer
\* signature does not verify and whose cofactor alone differs, was checked
\* and rejected with failure_syntax.
CofactorAloneDiffered ==
    /\ response.op = "checkRequestSemantics"
    /\ DifferingComponents(Checked) = {7}
    /\ Checked.publicKey /\ Checked.innerSignature
    /\ Checked.authenticated /\ ~Checked.outerSignature
    /\ response.result = FAILURE_SYNTAX

\* The checks of the semantics stage in their order: the collaborator call
\* that makes the check, whether the request passes it, and the code that a
\* failure gives.
SemanticChecks(st, req) ==
    <<[call |-> "getPublicKey", passes |-> req.publicKey,
       failure |-> FAILURE_SYNTAX],
      [call |-> "verifyWith", passes |-> req.innerSignature,
       failure |-> FAILURE_INNER_SIGNATURE],
      [call |-> "getPublicKeyOID", passes |-> req.oid = CurrentOID,
       failure |-> FAILURE_SYNTAX],
      [call |-> "getDomainParameter", passes |-> req.dp = getDomainParameter(st),
       failure |-> FAILURE_SYNTAX]>>
    \o IF req.authenticated
       THEN <<[call |-> "getAuthenticPublicKey", passes |-> req.outerCAR \in st,
               failure |-> FAILURE_OUTER_SIGNATURE],
              [call |-> "verifyATWith", passes |-> req.outerSignature,
               failure |-> FAILURE_OUTER_SIGNATURE]>>
       ELSE <<>>

\* The failing checks of a sequence of checks, by position.
Failing(checks) == {i \in 1..Len(checks) : ~checks[i].passes}

\* C19: for a request whose public key can be extracted, checkRequestSemantics
\* returns the failure code of the first failing check in the order inner
\* signature, algorithm, domain parameters, outer certificate resolution,
\* outer signature; it returns ok_cert_available exactly when no check fails;
\* and it makes the calls of the checks up to the first failing one and of
\* no later check.
FirstFailingCheckDecides ==
    (response.op = "checkRequestSemantics" /\ Checked.publicKey)
    => LET checks == SemanticChecks(store, Checked)
           last   == IF Failing(checks) = {} THEN Len(checks)
                     ELSE Min(Failing(checks))
       IN  /\ response.result =
                 IF Failing(checks) = {} THEN OK_CERT_AVAILABLE
                 ELSE checks[last].failure
           /\ response.calls = [i \in 1..last |-> checks[i].call]

\* A request failing three checks (inner signature, domain parameters, outer
\* signature) was answered after the first of them.
ThreeChecksFailed ==
    /\ response.op = "checkRequestSemantics"
    /\ Checked.publicKey
    /\ Cardinality(Failing(SemanticChecks(store, Checked))) = 3
    /\ ~Checked.innerSignature /\ DifferingComponents(Checked) # {}
    /\ Checked.authenticated /\ ~Checked.outerSignature
    /\ response.result = FAILURE_INNER_SIGNATURE
    /\ response.calls = <<"getPublicKey", "verifyWith">>

\* C20 as stated: a request whose public key cannot be extracted, like one
\* whose inner signature does not verify, gets failure_inner_signature.
KeyFailureIsInnerSignatureFailure ==
    (response.op = "checkRequestSemantics"
        /\ (~Checked.publicKey \/ ~Checked.innerSignature))
    => response.result = FAILURE_INNER_SIGNATURE

\* C20: in the first semantics step a request whose public key cannot be
\* extracted gets failure_syntax, and a request whose public key can be
\* extracted and whose inner signature does not verify gets
\* failure_inner_signature.
KeyFailureIsSyntaxFailure ==
    response.op = "checkRequestSemantics"
    => /\ ~Checked.publicKey => response.result = FAILURE_SYNTAX
       /\ (Checked.publicKey /\ ~Checked.innerSignature)
             => response.result = FAILURE_INNER_SIGNATURE

\* A request without an extractable public key, and nothing else wrong with
\* it, was rejected with failure_syntax after the one call.
UnextractableKeyChecked ==
    /\ response.op = "checkRequestSemantics"
    /\ ~Checked.publicKey
    /\ Checked.innerSignature /\ Checked.oid = CurrentOID
    /\ DifferingComponents(Checked) = {}
    /\ response.result = FAILURE_SYNTAX
    /\ response.calls = <<"getPublicKey">>

-----------------------------------------------------------------------------
(* Inbound requests under installed policies *)

\* The number of setTerminalCertificatePolicy calls in one run.
MaxIssueInstalled == 1

IssuePolicies == {"---", "i--", "ia-"}

IssueRequests == {"INITIAL", "FOREIGNCAR", "AUTHENTICATED"}

IssueMessageIDs == {"0001", "0002"}

IssueCallbackIndicators == {CALLBACK_POSSIBLE, CALLBACK_NOT_POSSIBLE, Undefined}

TerminalURL == "http://terminal/SendCertificates"

\* The time of every call: the earlier terminal certificate is still valid.
IssueTime == 30

IssueSetPolicy ==
    /\ Len(installed) < MaxIssueInstalled
    /\ \E policy \in IssuePolicies, chrregex \in {Undefined, "^DE"} :
          setTerminalCertificatePolicy(policy, chrregex)

\* At most one inbound request awaits its answer.
IssueGetCACertificates ==
    /\ inqueue = <<>>
    /\ \E callbackIndicator \in IssueCallbackIndicators, messageID \in IssueMessageIDs :
          GetCACertificates(callbackIndicator, messageID, TerminalURL)

IssueRequestCertificate ==
    /\ inqueue = <<>>
    /\ \E name \in IssueRequests, callbackIndicator \in IssueCallbackIndicators,
          messageID \in IssueMessageIDs, issueFails \in BOOLEAN :
          RequestCertificate(Base64(name), callbackIndicator, messageID,
                             TerminalURL, IssueTime, issueFails)

NextIssue == IssueSetPolicy \/ IssueGetCACertificates \/ IssueRequestCertificate

SpecIssue == Init /\ [][NextIssue]_vars

\* The policy of the request's holder has the switch for initial requests on.
InitialApproved(name) ==
    /\ PolicyOf(name) # Undefined
    /\ PolicyTable[PolicyOf(name)].initialRequestsApproved

\* The policy of the request's holder has the switch for initial requests off.
InitialNotApproved(name) ==
    /\ PolicyOf(name) # Undefined
    /\ ~PolicyTable[PolicyOf(name)].initialRequestsApproved

\* C12: RequestCertificate with a valid unauthenticated request, a resolved
\* policy that approves initial requests and no callback, where generating
\* and storing the certificate succeed, returns ok_cert_available with the
\* certificate list determined for the request and the one newly issued
\* certificate appended last, stores that certificate, and leaves the inbound
\* queue as it was.
ApprovedInitialRequestIssued ==
    [][\A name \in {"INITIAL", "FOREIGNCAR"},
          callbackIndicator \in {CALLBACK_NOT_POSSIBLE, Undefined},
          messageID \in IssueMessageIDs :
          (RequestCertificate(Base64(name), callbackIndicator, messageID,
                              TerminalURL, IssueTime, FALSE)
              /\ InitialApproved(name))
          => /\ response'.error = NoError
             /\ response'.result = OK_CERT_AVAILABLE
             /\ response'.certificates =
                   Append(IF RequestTable[name].car = CurrentCHR THEN <<>>
                          ELSE CertificateList(store),
                          RequestTable[name].chr)
             /\ store' = store \cup {RequestTable[name].chr}
             /\ inqueue' = inqueue
             /\ heap' = heap]_vars

\* A request naming another authority was answered with the chain and the
\* newly issued certificate, which is the only certificate issued so far.
ChainAndIssuedCertificateReturned ==
    /\ response.op = "RequestCertificate"
    /\ response.result = OK_CERT_AVAILABLE
    /\ response.certificates = <<"CVCA", CurrentCHR, "UTCAM00001">>
    /\ store = {"CVCA", CurrentCHR, EarlierTerminal, "UTCAM00001"}
    /\ inqueue = <<>>

\* C13: RequestCertificate with a valid unauthenticated request, a resolved
\* policy that does not approve initial requests and callback_possible
\* returns ok_syntax with an empty certificate list, issues no certificate,
\* and appends to the inbound queue exactly one entry, which carries the
\* message id, the response URL and the decoded request with status
\* ok_syntax.
UnapprovedInitialRequestQueued ==
    [][\A name \in {"INITIAL", "FOREIGNCAR"}, messageID \in IssueMessageIDs,
          issueFails \in BOOLEAN :
          (RequestCertificate(Base64(name), CALLBACK_POSSIBLE, messageID,
                              TerminalURL, IssueTime, issueFails)
              /\ InitialNotApproved(name))
          => /\ response'.error = NoError
             /\ response'.result = OK_SYNTAX
             /\ response'.certificates = <<>>
             /\ store' = store
             /\ Len(heap') = Len(heap) + 1
             /\ SubSeq(heap', 1, Len(heap)) = heap
             /\ inqueue' = Append(inqueue, Len(heap'))
             /\ heap'[Len(heap')].messageID = messageID
             /\ heap'[Len(heap')].responseURL = TerminalURL
             /\ heap'[Len(heap')].certificateRequest = name
             /\ heap'[Len(heap')].statusInfo = OK_SYNTAX]_vars

\* An initial request was queued under a policy that does not approve initial
\* requests.
InitialRequestQueued ==
    /\ response.op = "RequestCertificate"
    /\ response.result = OK_SYNTAX
    /\ Len(inqueue) = 1
    /\ heap[inqueue[1]].certificateRequest = "INITIAL"
    /\ heap[inqueue[1]].messageID = response.key
    /\ InitialNotApproved("INITIAL")

\* C14: GetCACertificates with callback_possible appends exactly one entry to
\* the inbound queue and returns ok_syntax with an empty certificate list;
\* with any other callback indicator it returns ok_cert_available with the
\* authority's certificate list and leaves the inbound queue as it was.
CACertificatesQueuedOrReturned ==
    [][\A callbackIndicator \in IssueCallbackIndicators, messageID \in IssueMessageIDs :
          GetCACertificates(callbackIndicator, messageID, TerminalURL)
          => /\ response'.error = NoError
             /\ IF callbackIndicator = CALLBACK_POSSIBLE
                THEN /\ response'.result = OK_SYNTAX
                     /\ response'.certificates = <<>>
                     /\ Len(heap') = Len(heap) + 1
                     /\ inqueue' = Append(inqueue, Len(heap'))
                     /\ heap'[Len(heap')].messageID = messageID
                ELSE /\ response'.result = OK_CERT_AVAILABLE
                     /\ response'.certificates = CertificateList(store)
                     /\ response'.certificates # <<>>
                     /\ inqueue' = inqueue
                     /\ heap' = heap]_vars

\* The chain was returned to a caller that gave no callback indicator, after
\* a certificate had been issued.
ChainReturnedWithoutCallback ==
    /\ response.op = "GetCACertificates"
    /\ response.result = OK_CERT_AVAILABLE
    /\ response.certificates = <<"CVCA", CurrentCHR>>
    /\ "DETERM00001" \in store
    /\ inqueue = <<>>

-----------------------------------------------------------------------------
(* Queued certificate requests that an operator approves and processes *)

\* The number of requests queued in one run.
MaxProcessQueued == 2

\* The number of certificates issued for queued requests in one run.
MaxProcessIssued == 2

\* What the terminal may answer to the delivery.
TerminalReplies ==
    {TransportFailed, ParentReply("ok", OK_RECEIVED_CORRECTLY, <<>>)}

ProcessSetPolicy ==
    /\ terminalCertificatePolicy = Undefined
    /\ setTerminalCertificatePolicy("---", Undefined)

ProcessRequestCertificate ==
    /\ Len(heap) < MaxProcessQueued
    /\ \E name \in {"INITIAL", "AUTHENTICATED"} :
          RequestCertificate(Base64(name), CALLBACK_POSSIBLE,
                             "0001", TerminalURL, IssueTime, FALSE)

ProcessGetCACertificates ==
    /\ Len(heap) < MaxProcessQueued
    /\ GetCACertificates(CALLBACK_POSSIBLE, "0001", TerminalURL)

ProcessApprove ==
    \E index \in 0..(Len(inqueue) - 1) : approveInboundRequest(index)

ProcessInbound ==
    /\ Len(issuedFor) < MaxProcessIssued
    /\ \E index \in 0..Len(inqueue), reply \in TerminalReplies :
          processInboundRequest(index, reply)

ProcessDelete ==
    \E index \in 0..Len(inqueue) : deleteInboundRequest(index)

NextProcess ==
    \/ ProcessSetPolicy
    \/ ProcessRequestCertificate
    \/ ProcessGetCACertificates
    \/ ProcessApprove
    \/ ProcessInbound
    \/ ProcessDelete

SpecProcess == Init /\ [][NextProcess]_vars

\* C17: once a certificate was issued for a queued request and delivered, no
\* further certificate is issued for that request.
IssuedIsTerminal ==
    \A i, j \in 1..Len(issuedFor) :
        (i < j /\ issuedFor[i].sr = issuedFor[j].sr) => ~issuedFor[i].delivered

-----------------------------------------------------------------------------
(* Two threads making outbound requests and taking deliveries *)

\* The number of outbound requests made in one run by the two threads.
MaxConcurrent == 11

\* The number of deliveries taken in one run by the two threads.
MaxConcurrentDeliveries == 1

\* The deliveries that were applied.
Delivered == {sr \in 1..Len(heap) : heap[sr].finalStatusInfo # Undefined}

\* The threads that are inside SendCertificates.
Delivering == {t \in Threads : threads[t].pc = "deliver"}

ConcurrentEnter ==
    /\ Len(heap) < MaxConcurrent
    /\ \E t \in Threads : EnterAddOutboundRequest(t, Len(heap))

ConcurrentTest == \E t \in Threads : TestLength(t)

ConcurrentShift == \E t \in Threads : ShiftOldest(t)

ConcurrentDelete == \E t \in Threads : DeleteIndexed(t)

ConcurrentPush == \E t \in Threads : PushRequest(t)

ConcurrentPut == \E t \in Threads : PutIndexed(t)

\* A delivery names the oldest queued request, or a message id never drawn.
ConcurrentLookup ==
    /\ Cardinality(Delivered) + Cardinality(Delivering) < MaxConcurrentDeliveries
    /\ \E t \in Threads :
          \E msgid \in {"FFFF"} \cup {heap[outqueue[i]].messageID : i \in {1} \cap DOMAIN outqueue} :
             LookupDelivery(t, msgid, <<Base64("LINK")>>)

ConcurrentDeliver ==
    \E t \in Threads : ApplyDelivery(t, OK_CERT_AVAILABLE, <<Base64("LINK")>>)

NextConcurrent ==
    \/ ConcurrentEnter
    \/ ConcurrentTest
    \/ ConcurrentShift
    \/ ConcurrentDelete
    \/ ConcurrentPush
    \/ ConcurrentPut
    \/ ConcurrentLookup
    \/ ConcurrentDeliver

SpecConcurrent == Init /\ [][NextConcurrent]_vars

\* C18: in every interleaving of two threads the outbound queue holds at
\* most 10 requests, and whenever no thread is inside a call every request
\* the index names is in the list and every listed request with a message id
\* is named by the index.
QueueOperationsAtomic ==
    /\ Len(outqueue) <= QueueCapacity
    /\ (\A t \in Threads : threads[t].pc = "idle")
          => /\ \A msgid \in DOMAIN outqueuemap :
                   outqueuemap[msgid] \in Range(outqueue)
             /\ \A i \in 1..Len(outqueue) :
                   Truthy(heap[outqueue[i]].messageID)
                      => MapGet(outqueuemap, heap[outqueue[i]].messageID) = outqueue[i]

-----------------------------------------------------------------------------
(* Asynchronous outbound requests and the deliveries that answer them *)

\* The number of outbound requests made in one run.
MaxCorrelated == 11

\* The number of deliveries applied in one run.
MaxCorrelatedDeliveries == 1

\* The random source gives the same two bytes again after this many draws.
RandomPeriod == 9

CorrelatedRandom == Len(heap) % RandomPeriod

\* The message ids of the two requests queued last.
LastTwoMessageIDs ==
    {heap[outqueue[i]].messageID : i \in (Len(outqueue) - 1)..Len(outqueue)
                                        \cap DOMAIN outqueue}

CorrelateCall ==
    /\ Len(heap) < MaxCorrelated
    /\ CallParent("A", TRUE, CorrelatedRandom)

CorrelateAnswer ==
    \E reply \in {TransportFailed, Acknowledged} : ParentAnswers("A", reply)

\* The number of renewals in one run.
MaxCorrelatedRenewals == 1

\* The renewals made so far.
Renewals == {sr \in 1..Len(heap) : isCertificateRequest(heap, sr)}

CorrelateRenew ==
    /\ Len(heap) < MaxCorrelated
    /\ Cardinality(Renewals) < MaxCorrelatedRenewals
    /\ renewCertificate(TRUE, FALSE, CorrelatedRandom, Acknowledged)

CorrelateSend ==
    /\ Cardinality(Delivered) < MaxCorrelatedDeliveries
    /\ \E msgid \in LastTwoMessageIDs :
          SendCertificates(OK_CERT_AVAILABLE, msgid, <<Base64("LINK")>>)

NextCorrelate == CorrelateCall \/ CorrelateAnswer \/ CorrelateRenew \/ CorrelateSend

SpecCorrelate == Init /\ [][NextCorrelate]_vars

\* The queued outbound requests that carry msgid.
QueuedWith(msgid) == {sr \in Range(outqueue) : heap[sr].messageID = msgid}

\* C21: a delivery for the message id of an asynchronous outbound request that
\* is still in the outbound queue, arriving while the remote call is under
\* way or after it ended, is matched to the request queued last under that
\* id: the request takes the delivered status and a final status.
DeliveryMatchesQueuedRequest ==
    [][\A msgid \in {ToHex(rnd) : rnd \in 0..(RandomPeriod - 1)} :
          (/\ SendCertificates(OK_CERT_AVAILABLE, msgid, <<Base64("LINK")>>)
           /\ QueuedWith(msgid) # {})
          => /\ response'.error = NoError
             /\ response'.result # FAILURE_MESSAGEID_UNKNOWN
             /\ heap'[Max(QueuedWith(msgid))].statusInfo = OK_CERT_AVAILABLE
             /\ heap'[Max(QueuedWith(msgid))].finalStatusInfo # Undefined]_vars

-----------------------------------------------------------------------------
(* Requests that are issued at once or queued, approved and re-evaluated,
   while the authority may renew its own certificate *)

\* The number of requests queued in one run.
MaxReevaluateQueued == 1

\* The inbound requests queued so far, deleted ones included.
QueuedSoFar == {sr \in 1..Len(heap) : heap[sr].responseURL = TerminalURL}

\* The number of certificates issued for queued requests in one run.
MaxReevaluateIssued == 1

ReevaluateRequests == {"INITIAL", "AUTHENTICATED"}

ReevaluateSetPolicy ==
    /\ terminalCertificatePolicy = Undefined
    /\ \E policy \in {"---", "i--"} : setTerminalCertificatePolicy(policy, Undefined)

ReevaluateRequestCertificate ==
    /\ Cardinality(QueuedSoFar) < MaxReevaluateQueued
    /\ \E name \in ReevaluateRequests,
          callbackIndicator \in {CALLBACK_POSSIBLE, CALLBACK_NOT_POSSIBLE} :
          RequestCertificate(Base64(name), callbackIndicator, "0001", TerminalURL,
                             IssueTime, FALSE)

\* The parent issues the authority's next certificate in a synchronous renewal.
ReevaluateRenew ==
    /\ NextCHR \notin store
    /\ renewCertificate(FALSE, FALSE, 0,
                        ParentReply("ok", OK_CERT_AVAILABLE, <<Base64(NextCHR)>>))

ReevaluateApprove ==
    \E index \in 0..(Len(inqueue) - 1) : approveInboundRequest(index)

ReevaluateProcess ==
    /\ Len(issuedFor) < MaxReevaluateIssued
    /\ \E index \in 0..(Len(inqueue) - 1), reply \in TerminalReplies :
          processInboundRequest(index, reply)

ReevaluateDelete ==
    \E index \in 0..(Len(inqueue) - 1) : deleteInboundRequest(index)

NextReevaluate ==
    \/ ReevaluateSetPolicy
    \/ ReevaluateRequestCertificate
    \/ ReevaluateRenew
    \/ ReevaluateApprove
    \/ ReevaluateProcess
    \/ ReevaluateDelete

SpecReevaluate == Init /\ [][NextReevaluate]_vars

\* What the semantics stage is to answer for a request, given the store.
SemanticVerdict(st, name) ==
    LET checks == SemanticChecks(st, RequestTable[name])
    IN  IF Failing(checks) = {} THEN OK_CERT_AVAILABLE
        ELSE checks[Min(Failing(checks))].failure

\* The certificate list a request is to be answered with when it is issued.
IssuedList(st, name) ==
    Append(IF RequestTable[name].car = getCurrentCHR(st) THEN <<>>
           ELSE CertificateList(st),
           RequestTable[name].chr)

\* The terminal's answer is recorded as the final status, or the transport
\* failure reaches the caller as a device error.
DeliveredTo(sr, reply) ==
    IF reply.transport = "failed"
    THEN response'.error = DeviceError
    ELSE /\ response'.error = NoError
         /\ heap'[sr].finalStatusInfo = reply.returnCode

\* C22 as stated: processInboundRequest on a queued certificate request, in
\* whatever status, re-runs the semantic check; it issues and delivers when
\* the request passes, and else sets the failure code and delivers that.
QueuedRequestReevaluated ==
    [][\A index \in 0..(MaxReevaluateQueued - 1), reply \in TerminalReplies :
          (/\ processInboundRequest(index, reply)
           /\ index + 1 \in DOMAIN inqueue
           /\ isCertificateRequest(heap, inqueue[index + 1]))
          => LET sr   == inqueue[index + 1]
                 name == heap[sr].certificateRequest
             IN  /\ DeliveredTo(sr, reply)
                 /\ IF SemanticVerdict(store, name) = OK_CERT_AVAILABLE
                    THEN /\ store' = store \cup {RequestTable[name].chr}
                         /\ response'.certificateSeq = IssuedList(store, name)
                    ELSE /\ store' = store
                         /\ response'.certificateSeq = <<>>
                         /\ heap'[sr].statusInfo = SemanticVerdict(store, name)]_vars

\* C22: processInboundRequest on a queued certificate request whose status
\* was set to ok_cert_available re-runs the semantic check; when the request
\* passes it issues a certificate and delivers the certificate list, and when
\* it fails it issues nothing, sets the status to the failure code and
\* delivers that.  A request still in the status ok_syntax it was queued
\* with is delivered as it is, with no certificate, unchecked and unissued.
ApprovedRequestReevaluated ==
    [][\A index \in 0..(MaxReevaluateQueued - 1), reply \in TerminalReplies :
          (/\ processInboundRequest(index, reply)
           /\ index + 1 \in DOMAIN inqueue
           /\ isCertificateRequest(heap, inqueue[index + 1]))
          => LET sr   == inqueue[index + 1]
                 name == heap[sr].certificateRequest
             IN  /\ DeliveredTo(sr, reply)
                 /\ IF heap[sr].statusInfo # OK_CERT_AVAILABLE
                    THEN /\ store' = store
                         /\ response'.certificateSeq = <<>>
                         /\ response'.calls = SoapCalled
                         /\ heap'[sr].statusInfo = heap[sr].statusInfo
                    ELSE IF SemanticVerdict(store, name) = OK_CERT_AVAILABLE
                    THEN /\ store' = store \cup {RequestTable[name].chr}
                         /\ response'.certificateSeq = IssuedList(store, name)
                         /\ heap'[sr].statusInfo = OK_CERT_AVAILABLE
                    ELSE /\ store' = store
                         /\ response'.certificateSeq = <<>>
                         /\ heap'[sr].statusInfo = SemanticVerdict(store, name)
                         /\ ~IsOk(heap'[sr].statusInfo)]_vars

\* An approved request no longer passed after the authority had renewed its
\* certificate: the failure code was set and delivered, nothing was issued.
RecheckFailedAfterRenewal ==
    /\ response.op = "processInboundRequest"
    /\ response.error = NoError
    /\ response.calls = <<"checkRequestSemantics">> \o SoapCalled
    /\ response.certificateSeq = <<>>
    /\ NextCHR \in store
    /\ issuedFor = <<>>
    /\ \E sr \in Range(inqueue) :
          /\ heap[sr].statusInfo = FAILURE_SYNTAX
          /\ heap[sr].finalStatusInfo = OK_RECEIVED_CORRECTLY

\* C23: whenever RequestCertificate answers with a return code that is not
\* an ok_ code, the answer carries no certificate and the inbound queue is
\* as it was before the call, also when generating or storing the
\* certificate fails after the certificate list was determined.
FailureReturnsNoCertificates ==
    [][\A name \in IssueRequests, callbackIndicator \in IssueCallbackIndicators,
          messageID \in IssueMessageIDs, issueFails \in BOOLEAN :
          (/\ RequestCertificate(Base64(name), callbackIndicator, messageID,
                                 TerminalURL, IssueTime, issueFails)
           /\ ~IsOk(response'.result))
          => /\ response'.certificates = <<>>
             /\ inqueue' = inqueue]_vars

\* The step issued and stored a certificate.
IssuedByRequestCertificate ==
    response'.op = "RequestCertificate" /\ response'.result = OK_CERT_AVAILABLE

IssuedByProcessInboundRequest ==
    /\ response'.op = "processInboundRequest"
    /\ "issueCertificate" \in Range(response'.calls)

\* The request RequestCertificate was called with.
Submitted ==
    CHOOSE name \in ReevaluateRequests : <<Base64(name)>> = response'.certificateSeq

\* C24: a step stores a terminal certificate only by issuing it; it issues in
\* RequestCertificate only for a request that passes the semantic check in
\* the state of the call and that the policy approves, and in
\* processInboundRequest only for a queued request that passes the semantic
\* check in the state of the call and whose status is ok_cert_available.
IssuedOnlyAfterChecks ==
    [][/\ IssuedByRequestCertificate
          => /\ SemanticVerdict(store, Submitted) = OK_CERT_AVAILABLE
             /\ PolicyOf(Submitted) # Undefined
             /\ PolicyDecision(PolicyOf(Submitted), Submitted, OK_CERT_AVAILABLE,
                               FALSE, IssueTime) = OK_CERT_AVAILABLE
       /\ IssuedByProcessInboundRequest
          => /\ Len(issuedFor') = Len(issuedFor) + 1
             /\ LET sr == issuedFor'[Len(issuedFor')].sr
                IN  /\ sr \in Range(inqueue)
                    /\ heap[sr].statusInfo = OK_CERT_AVAILABLE
                    /\ SemanticVerdict(store, heap[sr].certificateRequest)
                          = OK_CERT_AVAILABLE
       /\ (store' \ store) \cap {RequestTable[name].chr : name \in ReevaluateRequests} # {}
          => IssuedByRequestCertificate \/ IssuedByProcessInboundRequest]_vars

\* One certificate was issued at once by RequestCertificate and another for
\* a queued request by processInboundRequest.
IssuedOnBothPaths ==
    /\ response.op = "processInboundRequest"
    /\ "issueCertificate" \in Range(response.calls)
    /\ Len(issuedFor) = 1
    /\ {"DETERM00001", "UTTERM00001"} \subseteq store
    /\ terminalCertificatePolicy = "i--"

====
